---- MODULE Spec2Model ----
(***************************************************************************)
(* Recipe costing (models/recipe_recipe.py, models/recipe_ingredient.py)   *)
(* and the CSV ingredient importer (wizard/ingredient_import.py).          *)
(*                                                                         *)
(* Numbers.  Plain Float fields (quantity, labor_hours, energy_hours) and  *)
(* the two rate parameters are held in hundredths.  Float fields declared  *)
(* digits="Product Price" are held in units of that precision (cents):     *)
(* the ORM rounds a value assigned to such a field to the field's digits,  *)
(* half away from zero.  A product of a plain float and a price is thus a  *)
(* count of 1/Scale cents until it is stored.                              *)
(***************************************************************************)
EXTENDS Integers, Sequences, FiniteSets, TLC

\* ---------------------------------------------------------------- bounds
MaxLines == 2
MaxIng == 2
MaxRows == 3
MaxCost == 300

RecipeIds == {1, 2}
LineIds == 1..MaxLines
IngIds == 1..MaxIng
ProductIds == {1}
NoId == 0

\* --------------------------------------------------------------- numbers
Scale == 100

Abs(n) == IF n < 0 THEN -n ELSE n

\* n/d rounded to the nearest integer, halves away from zero (d # 0)
RoundDiv(n, d) ==
    LET q == (2 * Abs(n) + Abs(d)) \div (2 * Abs(d))
    IN IF (n < 0) = (d < 0) THEN q ELSE -q

\* the value a digits="Product Price" field keeps of v (v in 1/Scale cents)
float_round(v) == RoundDiv(v, Scale)

\* ceiling of n/d for n >= 0, d > 0
CeilDiv(n, d) == (n + d - 1) \div d

RECURSIVE SumOver(_, _)
SumOver(S, f) ==
    IF S = {} THEN 0
    ELSE LET x == CHOOSE y \in S : TRUE
         IN f[x] + SumOver(S \ {x}, f)

\* ------------------------------------------------------ units of measure
\* The uom.uom records the module refers to, with their category and their
\* size in the smallest unit of the category.
UomIds == {"kg", "g", "l", "ml", "unit", "dozen"}
uom_category(u) ==
    IF u \in {"kg", "g"} THEN "weight" ELSE IF u \in {"l", "ml"} THEN "volume" ELSE "unit"
uom_size(u) == IF u \in {"kg", "l"} THEN 1000 ELSE IF u = "dozen" THEN 12 ELSE 1
ConversionFails == -1

\* uom_id._compute_quantity(qty, to_unit): converts within a category,
\* rounding up to the unit's rounding (0.01), and raises across categories.
uom_compute_quantity(qty, from, to) ==
    IF uom_category(from) # uom_category(to) THEN ConversionFails
    ELSE CeilDiv(qty * uom_size(from), uom_size(to))

\* ------------------------------------------------------------------ state
VARIABLES
    ingredient,      \* recipe.ingredient table: IngIds -> record
    recipe,          \* recipe.recipe table: RecipeIds -> record
    line,            \* recipe.recipe.line table: LineIds -> record
    param,           \* ir.config_parameter: labor_rate, energy_rate
    standard_price,  \* product.product standard_price: ProductIds -> cents
    categories,      \* recipe.ingredient.category names
    partners,        \* res.partner names
    wizard,          \* the recipe.ingredient.import record and its run
    lastOp,          \* the operation that ran last and the recipe it recomputed
    imported,        \* the rows read by all imports so far (the model stops at MaxRows)
    tocompute        \* the stored computed fields marked for recomputation

vars == <<ingredient, recipe, line, param, standard_price, categories,
          partners, wizard, lastOp, imported, tocompute>>

\* an ir.config_parameter key with no value; a set one holds <<value>>
Unset == <<>>

NoIngredient ==
    [exists |-> FALSE, name |-> "", code |-> "", category_id |-> "",
     uom_id |-> "", price |-> 0, price_date |-> "", supplier_id |-> ""]

NoLine ==
    [exists |-> FALSE, recipe_id |-> NoId, ingredient_id |-> NoId,
     sub_recipe_id |-> NoId, quantity |-> 0, uom_id |-> "", cost |-> 0]

\* ------------------------------------------------------------ cost engine

\* get_param("chefrulo_recipe.<key>", "0") read as a float
get_rate(p, key) == IF p[key] = Unset THEN 0 ELSE p[key][1]

\* RecipeRecipeLine._compute_cost for one line, before it is stored
line_cost_value(ln, ing, rec) ==
    IF ln.ingredient_id # NoId /\ ln.quantity # 0 THEN
        IF ln.uom_id # "" /\ ing[ln.ingredient_id].uom_id # "" THEN
            LET q == uom_compute_quantity(ln.quantity, ln.uom_id,
                                          ing[ln.ingredient_id].uom_id)
            IN IF q # ConversionFails
               THEN q * ing[ln.ingredient_id].price
               ELSE ln.quantity * ing[ln.ingredient_id].price
        ELSE ln.quantity * ing[ln.ingredient_id].price
    ELSE IF ln.sub_recipe_id # NoId /\ ln.quantity # 0 THEN
        ln.quantity * rec[ln.sub_recipe_id].total_cost
    ELSE 0

_compute_cost(ln, ing, rec) ==
    [ln EXCEPT !.cost = float_round(line_cost_value(ln, ing, rec))]

line_ids(lns, r) == {l \in LineIds : lns[l].exists /\ lns[l].recipe_id = r}

\* the locals of Recipe._compute_costs, in 1/Scale cents
ingredient_cost_of(lns, r) == SumOver(line_ids(lns, r), [l \in LineIds |-> lns[l].cost])
labor_cost_of(rc, p) == rc.labor_hours * get_rate(p, "labor_rate")
energy_cost_of(rc, p) == rc.energy_hours * get_rate(p, "energy_rate")
total_cost_of(rc, lns, r, p) ==
    ingredient_cost_of(lns, r) * Scale + energy_cost_of(rc, p)
        + rc.packaging_cost * Scale + rc.extra_cost * Scale
\* a grand total that leaves labor out
grand_total_without_labor(rc, lns, r, p) == total_cost_of(rc, lns, r, p)

grand_total_of(rc, lns, r, p) == total_cost_of(rc, lns, r, p) + labor_cost_of(rc, p)

\* a per-portion cost that falls back to the whole cost when portions is 0
per_portion_whole(v, portions) ==
    IF portions # 0 THEN RoundDiv(v, Scale * portions) ELSE float_round(v)

\* "x / recipe.portions if recipe.portions else 0", as the field stores it
per_portion(v, portions) ==
    IF portions # 0 THEN RoundDiv(v, Scale * portions) ELSE 0

\* Recipe._compute_costs for recipe r: the record with its seven stored fields
_compute_costs(rec, lns, r, p) ==
    LET rc == rec[r]
    IN [rc EXCEPT
          !.ingredient_cost = ingredient_cost_of(lns, r),
          !.labor_cost = float_round(labor_cost_of(rc, p)),
          !.energy_cost = float_round(energy_cost_of(rc, p)),
          !.total_cost = float_round(total_cost_of(rc, lns, r, p)),
          !.grand_total = float_round(grand_total_of(rc, lns, r, p)),
          !.cost_per_portion = per_portion(grand_total_of(rc, lns, r, p), rc.portions),
          !.cost_per_portion_no_labor = per_portion(total_cost_of(rc, lns, r, p), rc.portions)]

\* ------------------------------------------------------------- operations
\* Every operation is one request, run to completion in one transaction;
\* none starts while an import is processing its rows or a field is marked.
Idle == wizard.pc = "idle" /\ tocompute = {}

\* the model follows a recipe while its stored totals stay within MaxCost
Bounded(rc) == Abs(rc.grand_total) <= MaxCost /\ Abs(rc.total_cost) <= MaxCost

InputFields == {"labor_hours", "energy_hours", "packaging_cost", "extra_cost", "portions"}

\* recipe.write(vals) on the fields _compute_costs depends on: the ORM
\* recomputes the recipe's stored costs in the same request.
write(r, vals) ==
    /\ Idle
    /\ recipe' = [recipe EXCEPT ![r] =
          _compute_costs(
              [recipe EXCEPT ![r] =
                  [f \in DOMAIN recipe[r] |->
                      IF f \in InputFields THEN vals[f] ELSE recipe[r][f]]],
              line, r, param)]
    /\ Bounded(recipe'[r])
    /\ lastOp' = [op |-> "write", rec |-> r]
    /\ UNCHANGED <<tocompute, imported, ingredient, line, param, standard_price, categories, partners, wizard>>

\* recipe.write({"product_id": p}): no cost field depends on it
write_product_id(r, p) ==
    /\ Idle
    /\ recipe' = [recipe EXCEPT ![r].product_id = p]
    /\ lastOp' = [op |-> "write_product_id", rec |-> NoId]
    /\ UNCHANGED <<tocompute, imported, ingredient, line, param, standard_price, categories, partners, wizard>>

action_recompute_costs(r) ==
    /\ Idle
    /\ recipe' = [recipe EXCEPT ![r] = _compute_costs(recipe, line, r, param)]
    /\ Bounded(recipe'[r])
    /\ lastOp' = [op |-> "action_recompute_costs", rec |-> r]
    /\ UNCHANGED <<tocompute, imported, ingredient, line, param, standard_price, categories, partners, wizard>>

\* a sync that pushes the recipe's grand total instead of the cost per portion
product_cost_written_total(sp, rec, r) ==
    IF rec[r].product_id # NoId
    THEN [sp EXCEPT ![rec[r].product_id] = rec[r].grand_total]
    ELSE sp

\* the standard_price table after Recipe.action_update_product_cost on r
product_cost_written(sp, rec, r) ==
    IF rec[r].product_id # NoId
    THEN [sp EXCEPT ![rec[r].product_id] = rec[r].cost_per_portion]
    ELSE sp

action_update_product_cost(r) ==
    /\ Idle
    /\ standard_price' = product_cost_written(standard_price, recipe, r)
    /\ lastOp' = [op |-> "action_update_product_cost", rec |-> r]
    /\ UNCHANGED <<tocompute, imported, ingredient, recipe, line, param, categories, partners, wizard>>

\* ir.config_parameter set_param: no stored field depends on a parameter
set_param(key, v) ==
    /\ Idle
    /\ param' = [param EXCEPT ![key] = <<v>>]
    /\ lastOp' = [op |-> "set_param", rec |-> NoId]
    /\ UNCHANGED <<tocompute, imported, ingredient, recipe, line, standard_price, categories, partners, wizard>>

\* the line table and the recipe table after line l is stored with its
\* dependencies changed: the line's cost, then its recipe's costs
line_stored(l, ln) ==
    LET lns == [line EXCEPT ![l] = _compute_cost(ln, ingredient, recipe)]
    IN /\ line' = lns
       /\ recipe' = [recipe EXCEPT ![ln.recipe_id] =
                        _compute_costs(recipe, lns, ln.recipe_id, param)]
       /\ Bounded(recipe'[ln.recipe_id])

\* recipe.recipe.line create(vals)
line_create(l, vals) ==
    /\ Idle
    /\ ~line[l].exists
    /\ line_stored(l, [vals EXCEPT !.exists = TRUE, !.cost = 0])
    /\ lastOp' = [op |-> "line_create", rec |-> vals.recipe_id]
    /\ UNCHANGED <<tocompute, imported, ingredient, param, standard_price, categories, partners, wizard>>

\* recipe.recipe.line write(vals) on ingredient_id, sub_recipe_id, quantity, uom_id
line_write(l, vals) ==
    /\ Idle
    /\ line[l].exists
    /\ line_stored(l, [vals EXCEPT !.exists = TRUE, !.recipe_id = line[l].recipe_id,
                                   !.cost = line[l].cost])
    /\ lastOp' = [op |-> "line_write", rec |-> line[l].recipe_id]
    /\ UNCHANGED <<tocompute, imported, ingredient, param, standard_price, categories, partners, wizard>>

\* recipe.recipe.line unlink(): line_ids of its recipe changes
line_unlink(l) ==
    /\ Idle
    /\ line[l].exists
    /\ LET lns == [line EXCEPT ![l] = NoLine]
       IN /\ line' = lns
          /\ recipe' = [recipe EXCEPT ![line[l].recipe_id] =
                           _compute_costs(recipe, lns, line[l].recipe_id, param)]
    /\ lastOp' = [op |-> "line_unlink", rec |-> line[l].recipe_id]
    /\ UNCHANGED <<tocompute, imported, ingredient, param, standard_price, categories, partners, wizard>>

\* recipe.ingredient write({"price": p}) by a user: price is no declared
\* dependency of a line's cost
ingredient_write_price(i, p) ==
    /\ Idle
    /\ ingredient[i].exists
    /\ ingredient' = [ingredient EXCEPT ![i].price = p]
    /\ lastOp' = [op |-> "ingredient_write_price", rec |-> NoId]
    /\ UNCHANGED <<tocompute, imported, recipe, line, param, standard_price, categories, partners, wizard>>

\* ------------------------------------------- the recomputation, step by step
\* The operations above take the recomputation a write sets off as one step.
\* Here it is the loop it is made of: a write marks the stored computed fields
\* that declare the written field as a dependency, and the marked fields are
\* computed one at a time, each computation being a write in turn.
CostOf(l) == [model |-> "recipe.recipe.line", id |-> l]
CostsOf(r) == [model |-> "recipe.recipe", id |-> r]

\* a line's cost declared to depend on its sub-recipe's total_cost as well
triggered_through_sub_recipe(item, lns) ==
    IF item.model = "recipe.recipe.line"
    THEN {CostsOf(lns[item.id].recipe_id)}
    ELSE {CostOf(l) : l \in {k \in LineIds : lns[k].exists /\ lns[k].sub_recipe_id = item.id}}

\* the fields that declare a dependency on what computing `item` writes: the
\* costs of a line's recipe ("line_ids.cost"); nothing depends on a recipe's costs
triggered(item, lns) ==
    IF item.model = "recipe.recipe.line"
    THEN {CostsOf(lns[item.id].recipe_id)}
    ELSE {}

\* recipe.write(vals) up to the marking of the recipe's costs
begin_write(r, vals) ==
    /\ Idle
    /\ LET rec == [recipe EXCEPT ![r] =
                      [f \in DOMAIN recipe[r] |->
                          IF f \in InputFields THEN vals[f] ELSE recipe[r][f]]]
       IN /\ Bounded(_compute_costs(rec, line, r, param))
          /\ recipe' = rec
    /\ tocompute' = {CostsOf(r)}
    /\ lastOp' = [op |-> "begin_write", rec |-> NoId]
    /\ UNCHANGED <<imported, ingredient, line, param, standard_price, categories, partners, wizard>>

\* action_recompute_costs up to its call of _compute_costs
begin_action_recompute_costs(r) ==
    /\ Idle
    /\ Bounded(_compute_costs(recipe, line, r, param))
    /\ tocompute' = {CostsOf(r)}
    /\ lastOp' = [op |-> "begin_action_recompute_costs", rec |-> NoId]
    /\ UNCHANGED <<imported, ingredient, recipe, line, param, standard_price, categories, partners, wizard>>

\* recipe.recipe.line write(vals) up to the marking of the line's cost
begin_line_write(l, vals) ==
    /\ Idle
    /\ line[l].exists
    /\ LET ln == [vals EXCEPT !.exists = TRUE, !.recipe_id = line[l].recipe_id,
                              !.cost = line[l].cost]
       IN /\ Bounded(_compute_costs(recipe,
                         [line EXCEPT ![l] = _compute_cost(ln, ingredient, recipe)],
                         ln.recipe_id, param))
          /\ line' = [line EXCEPT ![l] = ln]
    /\ tocompute' = {CostOf(l)}
    /\ lastOp' = [op |-> "begin_line_write", rec |-> NoId]
    /\ UNCHANGED <<imported, ingredient, recipe, param, standard_price, categories, partners, wizard>>

\* one marked field is computed and stored, and its dependents are marked
recompute ==
    /\ \E item \in tocompute :
          /\ IF item.model = "recipe.recipe.line"
             THEN /\ line' = [line EXCEPT ![item.id] = _compute_cost(@, ingredient, recipe)]
                  /\ lastOp' = [op |-> "_compute_cost", rec |-> NoId]
                  /\ UNCHANGED recipe
             ELSE /\ recipe' = [recipe EXCEPT ![item.id] =
                                   _compute_costs(recipe, line, item.id, param)]
                  /\ Bounded(recipe'[item.id])
                  /\ lastOp' = [op |-> "_compute_costs", rec |-> item.id]
                  /\ UNCHANGED line
          /\ tocompute' = (tocompute \ {item}) \cup triggered(item, line)
    /\ UNCHANGED <<imported, ingredient, param, standard_price, categories, partners, wizard>>

\* ---------------------------------------------------------------- importer
\* Text is atomic here: str.strip() and str.lower() are given by their values
\* on the texts the model's files are made of.
strip(s) ==
    CASE s = " unit" -> "unit"
      [] s = " Name" -> "Name"
      [] s = "Salt " -> "Salt"
      [] OTHER -> s

lower(s) ==
    CASE s = "Kg" -> "kg"
      [] s = "Flour" -> "flour"
      [] s = "Salt" -> "salt"
      [] s = "Dry" -> "dry"
      [] s = "Acme" -> "acme"
      [] s = "Name" -> "name"
      [] s = "Price" -> "price"
      [] s = "UoM" -> "uom"
      [] s = "Units" -> "units"
      [] s = "Dozens" -> "dozens"
      [] OTHER -> s

\* the "=ilike" operator on two texts without wildcards
ilike(a, b) == lower(a) = lower(b)

Columns == {"code", "name", "category", "price", "uom", "unit", "supplier", "date"}

\* the value csv.DictReader gives a column the row is too short to reach
None == "<None>"
\* what a row holds for a column its file does not have
Absent == "<absent>"

\* row.get(key, default)
get(row, key, default) == IF row[key] = Absent THEN default ELSE row[key]

\* IngredientImport.UOM_MAPPING, by the uom.uom record each xmlid names
UOM_MAPPING ==
    [k \in {"kg", "kilo", "kilogram", "g", "gram", "l", "liter", "litre", "ml",
            "milliliter", "millilitre", "unit", "units", "pcs", "piece", "dozen"} |->
        CASE k \in {"kg", "kilo", "kilogram"} -> "kg"
          [] k \in {"g", "gram"} -> "g"
          [] k \in {"l", "liter", "litre"} -> "l"
          [] k \in {"ml", "milliliter", "millilitre"} -> "ml"
          [] k \in {"unit", "units", "pcs", "piece"} -> "unit"
          [] OTHER -> "dozen"]

\* the name field of the uom.uom records
uom_name(u) ==
    CASE u = "unit" -> "Units" [] u = "dozen" -> "Dozens" [] u = "l" -> "L" [] OTHER -> u

\* IngredientImport._get_uom: the uom.uom record, or "" (False)
_get_uom(name) ==
    IF name = "" THEN ""
    ELSE IF lower(strip(name)) \in DOMAIN UOM_MAPPING THEN UOM_MAPPING[lower(strip(name))]
    ELSE IF \E u \in UomIds : ilike(uom_name(u), name)
         THEN CHOOSE u \in UomIds : ilike(uom_name(u), name)
         ELSE ""

\* the record a get-or-create by name returns: an existing one whose name
\* matches without regard to case, else a new one named strip(name)
get_or_create(registry, name) ==
    IF \E c \in registry : ilike(c, strip(name))
    THEN CHOOSE c \in registry : ilike(c, strip(name))
    ELSE strip(name)

\* float(price_str.replace(",", ".")) in cents, <<>> for a ValueError
parse_price(s) ==
    CASE s = "0" -> <<0>>
      [] s = "2" -> <<200>>
      [] s = "1,50" -> <<150>>
      [] s = "1.20" -> <<120>>
      [] OTHER -> <<>>

\* IngredientImport._parse_date: the date, or "" (False) when no format fits
_parse_date(s) ==
    CASE s = "2024-01-31" -> "2024-01-31"
      [] s = "31/01/2024" -> "2024-01-31"
      [] s = "01/31/2024" -> "2024-01-31"
      [] OTHER -> ""

Today == "today"

\* the seven locals read from a row (lines 149-155), before .strip()
cells(row) ==
    [code |-> get(row, "code", ""), name |-> get(row, "name", ""),
     category |-> get(row, "category", ""), price |-> get(row, "price", "0"),
     uom |-> get(row, "uom", get(row, "unit", "")),
     supplier |-> get(row, "supplier", ""), date |-> get(row, "date", "")]

stripped(row) == [k \in DOMAIN cells(row) |-> strip(cells(row)[k])]

\* the message of the error a row ends with, "" when it ends with none
row_error(row) ==
    LET c == stripped(row)
    IN IF \E k \in DOMAIN cells(row) : cells(row)[k] = None
       THEN "'NoneType' object has no attribute 'strip'"
       ELSE IF c.name = "" THEN "Missing name"
       ELSE IF c.uom = "" THEN "Missing unit of measure"
       ELSE IF parse_price(c.price) = <<>> THEN "Invalid price"
       ELSE IF _get_uom(c.uom) = "" THEN "Unknown UoM"
       ELSE ""

\* the ingredients a name search takes its first record from: a search for
\* the name alone, the mistake search_existing is compared with
search_by_name_first(ing, code, name) ==
    LET by_name == {i \in IngIds : ing[i].exists /\ ilike(ing[i].name, name)}
        by_code == {i \in IngIds : ing[i].exists /\ code # "" /\ ing[i].code = code}
    IN IF by_name # {} THEN by_name ELSE by_code

\* lines 189-193: the ingredients the two searches (limit=1, in the table's
\* order) can return for a row; none when the row is to create one
search_existing(ing, code, name) ==
    LET by_code == {i \in IngIds : ing[i].exists /\ code # "" /\ ing[i].code = code}
        by_name == {i \in IngIds : ing[i].exists /\ ilike(ing[i].name, name)}
    IN IF by_code # {} THEN by_code ELSE by_name

\* vals that overwrite every optional field, supplied or not
import_vals_all(c, category, supplier) ==
    [name |-> c.name, price |-> parse_price(c.price)[1], uom_id |-> _get_uom(c.uom),
     price_date |-> IF _parse_date(c.date) # "" THEN _parse_date(c.date) ELSE Today,
     code |-> c.code, category_id |-> category, supplier_id |-> supplier]

\* lines 196-207: vals of a row that passed validation
import_vals(c, category, supplier) ==
    LET keys == {"name", "price", "uom_id", "price_date"}
                  \cup (IF c.code # "" THEN {"code"} ELSE {})
                  \cup (IF category # "" THEN {"category_id"} ELSE {})
                  \cup (IF supplier # "" THEN {"supplier_id"} ELSE {})
    IN [f \in keys |->
          CASE f = "name" -> c.name
            [] f = "price" -> parse_price(c.price)[1]
            [] f = "uom_id" -> _get_uom(c.uom)
            [] f = "price_date" ->
                  IF _parse_date(c.date) # "" THEN _parse_date(c.date) ELSE Today
            [] f = "code" -> c.code
            [] f = "category_id" -> category
            [] OTHER -> supplier]

\* record.write(vals), and create(vals) on the model's defaults
written(rec, vals) ==
    [f \in DOMAIN rec |-> IF f \in DOMAIN vals THEN vals[f] ELSE rec[f]]

created_from(vals) == written([NoIngredient EXCEPT !.exists = TRUE], vals)

NoRow == [k \in Columns |-> Absent]

NewWizard ==
    [state |-> "draft", pc |-> "idle", header |-> {}, row_num |-> 1,
     created |-> 0, updated |-> 0, errors |-> <<>>, result_message |-> <<>>,
     log |-> <<>>, row |-> NoRow]

ShownErrors == 20

\* lines 221-232: the report, as its parts
report(w) ==
    [created |-> w.created, updated |-> w.updated, errors |-> Len(w.errors),
     shown |-> SubSeq(w.errors, 1, IF Len(w.errors) > ShownErrors THEN ShownErrors
                                   ELSE Len(w.errors)),
     more |-> IF Len(w.errors) > ShownErrors THEN Len(w.errors) - ShownErrors ELSE 0]

\* action_import up to its loop: a new wizard holding a decodable file whose
\* header names are lowercased and stripped
action_import(fieldnames) ==
    /\ Idle
    /\ wizard' = [NewWizard EXCEPT !.pc = "rows",
                                   !.header = {lower(strip(h)) : h \in fieldnames}]
    /\ lastOp' = [op |-> "action_import", rec |-> NoId]
    /\ UNCHANGED <<tocompute, imported, ingredient, recipe, line, param, standard_price, categories, partners>>

\* a loop that numbers its rows from the header's number
row_done_numbered_late(row, result, id, message) ==
    [wizard EXCEPT
        !.row_num = @ + 1,
        !.row = row,
        !.created = IF result = "created" THEN @ + 1 ELSE @,
        !.updated = IF result = "updated" THEN @ + 1 ELSE @,
        !.errors = IF result = "error"
                   THEN Append(@, [row |-> wizard.row_num, message |-> message])
                   ELSE @,
        !.log = Append(@, [code |-> IF result = "error" THEN "" ELSE stripped(row).code,
                           name |-> IF result = "error" THEN "" ELSE stripped(row).name,
                           result |-> result, id |-> id])]

\* a loop that records only the errors its own checks raise
row_done_checks_only(row, result, id, message) ==
    [wizard EXCEPT
        !.row_num = @ + 1,
        !.row = row,
        !.created = IF result = "created" THEN @ + 1 ELSE @,
        !.updated = IF result = "updated" THEN @ + 1 ELSE @,
        !.errors = IF result = "error" /\ message # "'NoneType' object has no attribute 'strip'"
                   THEN Append(@, [row |-> wizard.row_num + 1, message |-> message])
                   ELSE @,
        !.log = Append(@, [code |-> IF result = "error" THEN "" ELSE stripped(row).code,
                           name |-> IF result = "error" THEN "" ELSE stripped(row).name,
                           result |-> result, id |-> id])]

\* the wizard after a row ended as `result` on ingredient `id`
row_done(row, result, id, message) ==
    [wizard EXCEPT
        !.row_num = @ + 1,
        !.row = row,
        !.created = IF result = "created" THEN @ + 1 ELSE @,
        !.updated = IF result = "updated" THEN @ + 1 ELSE @,
        !.errors = IF result = "error"
                   THEN Append(@, [row |-> wizard.row_num + 1, message |-> message])
                   ELSE @,
        !.log = Append(@, [code |-> IF result = "error" THEN "" ELSE stripped(row).code,
                           name |-> IF result = "error" THEN "" ELSE stripped(row).name,
                           result |-> result, id |-> id])]

\* one pass of the loop over the rows (lines 145-218)
action_import_row(row) ==
    /\ wizard.pc = "rows"
    /\ imported < MaxRows
    /\ imported' = imported + 1
    /\ lastOp' = [op |-> "action_import", rec |-> NoId]
    /\ UNCHANGED <<tocompute, recipe, line, param, standard_price>>
    /\ \/ /\ row_error(row) # ""
          /\ wizard' = row_done(row, "error", NoId, row_error(row))
          /\ UNCHANGED <<ingredient, categories, partners>>
       \/ /\ row_error(row) = ""
          /\ LET c == stripped(row)
                 category == IF c.category # "" THEN get_or_create(categories, c.category)
                             ELSE ""
                 supplier == IF c.supplier # "" THEN get_or_create(partners, c.supplier)
                             ELSE ""
                 vals == import_vals(c, category, supplier)
                 found == search_existing(ingredient, c.code, c.name)
             IN /\ categories' = categories \cup ({category} \ {""})
                /\ partners' = partners \cup ({supplier} \ {""})
                /\ \/ \E i \in found :
                         /\ ingredient' = [ingredient EXCEPT ![i] = written(@, vals)]
                         /\ wizard' = row_done(row, "updated", i, "")
                   \/ /\ found = {}
                      /\ \E i \in IngIds :
                            /\ ~ingredient[i].exists
                            /\ \A j \in IngIds : j < i => ingredient[j].exists
                            /\ ingredient' = [ingredient EXCEPT ![i] = created_from(vals)]
                            /\ wizard' = row_done(row, "created", i, "")

\* action_import after its loop (lines 220-233)
action_import_done ==
    /\ wizard.pc = "rows"
    /\ wizard' = [wizard EXCEPT !.pc = "idle", !.state = "done",
                                !.result_message = report(wizard)]
    /\ lastOp' = [op |-> "action_import", rec |-> NoId]
    /\ UNCHANGED <<tocompute, imported, ingredient, recipe, line, param, standard_price, categories, partners>>

\* ------------------------------------------------------------------- Init
NewRecipe ==
    [labor_hours |-> 0, energy_hours |-> 0, packaging_cost |-> 0, extra_cost |-> 0,
     portions |-> 1, product_id |-> NoId,
     ingredient_cost |-> 0, labor_cost |-> 0, energy_cost |-> 0, total_cost |-> 0,
     grand_total |-> 0, cost_per_portion |-> 0, cost_per_portion_no_labor |-> 0]

\* A database in use: one ingredient (Flour, code A, 1.20 per kg), recipe 1
\* made of 1 kg of it, recipe 2 still empty, both rates unset, no import run.
Init ==
    /\ ingredient = [i \in IngIds |->
          IF i = 1
          THEN [exists |-> TRUE, name |-> "Flour", code |-> "A", category_id |-> "",
                uom_id |-> "kg", price |-> 120, price_date |-> Today, supplier_id |-> ""]
          ELSE NoIngredient]
    /\ line = [l \in LineIds |->
          IF l = 1
          THEN [exists |-> TRUE, recipe_id |-> 1, ingredient_id |-> 1,
                sub_recipe_id |-> NoId, quantity |-> 100, uom_id |-> "kg", cost |-> 120]
          ELSE NoLine]
    /\ recipe = [r \in RecipeIds |->
          IF r = 1
          THEN [NewRecipe EXCEPT !.ingredient_cost = 120, !.total_cost = 120,
                                 !.grand_total = 120, !.cost_per_portion = 120,
                                 !.cost_per_portion_no_labor = 120]
          ELSE NewRecipe]
    /\ param = [labor_rate |-> Unset, energy_rate |-> Unset]
    /\ standard_price = [p \in ProductIds |-> 0]
    /\ categories = {"dry"}
    /\ partners = {}
    /\ wizard = NewWizard
    /\ lastOp = [op |-> "init", rec |-> NoId]
    /\ imported = 0
    /\ tocompute = {}

\* ------------------------------------------------- inputs of the cost engine
HoursVals == {0, 50}
MoneyVals == {0, 1}
PortionsVals == {-2, 0, 1, 3}
RateVals == {1, 3}
QuantityVals == {50, 100, 200}
\* 1 kg, half a kg, 250 g, half a gram, and one unit of a thing sold by weight
LineQuantities == {<<100, "kg">>, <<50, "kg">>, <<25000, "g">>, <<50, "g">>, <<100, "unit">>}
PriceVals == {120, 125}

RecipeVals ==
    [labor_hours : HoursVals, energy_hours : HoursVals, packaging_cost : MoneyVals,
     extra_cost : MoneyVals, portions : PortionsVals]

\* the edits of a recipe that only move its packaging cost, by the price of a kg
PackagingVals ==
    [labor_hours : {0}, energy_hours : {0}, packaging_cost : {0, 120},
     extra_cost : {0}, portions : {1}]

\* the edits of a recipe that move its packaging cost and its portions
PortionVals == {v \in RecipeVals : v.labor_hours = 0 /\ v.energy_hours = 0
                                    /\ v.extra_cost = 0}

\* a line refers to an ingredient or to a sub-recipe (in units)
IngredientLineVals ==
    {[exists |-> TRUE, recipe_id |-> r, ingredient_id |-> 1, sub_recipe_id |-> NoId,
      quantity |-> q[1], uom_id |-> q[2], cost |-> 0] :
        r \in RecipeIds, q \in LineQuantities}

SubRecipeLineVals ==
    {[exists |-> TRUE, recipe_id |-> r, ingredient_id |-> NoId, sub_recipe_id |-> s,
      quantity |-> q, uom_id |-> "unit", cost |-> 0] :
        r \in RecipeIds, s \in RecipeIds, q \in QuantityVals}

LineVals == IngredientLineVals \cup SubRecipeLineVals

\* whole quantities only: one kg of the ingredient, one or two of a sub-recipe
WholeLineVals == {v \in LineVals : v.quantity \in {100, 200} /\ v.uom_id \in {"kg", "unit"}
                                    /\ (v.ingredient_id # NoId => v.uom_id = "kg")}

\* one of a sub-recipe, itself included
OneOfARecipe == {v \in SubRecipeLineVals : v.quantity = 100}

\* The cost computation of one recipe over all its inputs.
NextCompute ==
    \/ \E vals \in RecipeVals : write(1, vals)
    \/ \E r \in RecipeIds : action_recompute_costs(r)
    \/ \E key \in {"labor_rate", "energy_rate"}, v \in RateVals : set_param(key, v)
    \/ \E l \in LineIds, vals \in IngredientLineVals : vals.recipe_id = 1 /\ line_write(l, vals)

SpecCompute == Init /\ [][NextCompute]_vars

\* Recipes made of ingredients and of each other.
NextCost ==
    \/ \E r \in RecipeIds, vals \in PackagingVals : write(r, vals)
    \/ \E r \in RecipeIds : action_recompute_costs(r)
    \/ \E l \in LineIds, vals \in WholeLineVals : line_create(l, vals)
    \/ \E l \in LineIds, vals \in WholeLineVals : line_write(l, vals)
    \/ \E l \in LineIds : line_unlink(l)

SpecCost == Init /\ [][NextCost]_vars

\* Recipes made of each other, their recomputations taken step by step. The
\* marked fields are computed to the last one before the request returns.
NextTrigger ==
    \/ \E r \in RecipeIds, vals \in PackagingVals : begin_write(r, vals)
    \/ \E r \in RecipeIds : begin_action_recompute_costs(r)
    \/ \E l \in LineIds, vals \in OneOfARecipe : begin_line_write(l, vals)
    \/ recompute
    \/ \E l \in LineIds, vals \in OneOfARecipe : line_create(l, vals)
    \/ \E l \in LineIds : line_unlink(l)

SpecTrigger == Init /\ [][NextTrigger]_vars /\ WF_vars(recompute)

\* The linked product and the operations around its cost.
NextProduct ==
    \/ \E r \in RecipeIds, vals \in PortionVals : write(r, vals)
    \/ \E r \in RecipeIds, p \in ProductIds \cup {NoId} : write_product_id(r, p)
    \/ \E r \in RecipeIds : action_recompute_costs(r)
    \/ \E r \in RecipeIds : action_update_product_cost(r)
    \/ \E l \in LineIds : line_unlink(l)

SpecProduct == Init /\ [][NextProduct]_vars

\* ----------------------------------------------------- inputs of the importer
\* header rows as written in the file
Headers ==
    {{" Name", "Price", "UoM"},
     {"code", "name", "category", "price", "uom", "supplier", "date"},
     {"code", "name", "unit"}}

PlainCells == [category |-> "", price |-> "1,50", uom |-> "Kg", supplier |-> "", date |-> ""]
FullCells ==
    [category |-> "Dry", price |-> "2", uom |-> " unit", supplier |-> "Acme",
     date |-> "31/01/2024"]

FileRow(code, name, x) ==
    [code |-> code, name |-> name, category |-> x.category, price |-> x.price,
     uom |-> x.uom, unit |-> x.uom, supplier |-> x.supplier, date |-> x.date]

\* rows that pass validation when their file has the columns
GoodRows ==
    {FileRow(c, n, PlainCells) : c \in {"", "A", "B"}, n \in {"flour", "Salt "}}
        \cup {FileRow("A", "Flour", FullCells)}

\* rows with a cell missing or wrong, and a row cut short after the price
BadRows ==
    LET r == FileRow("A", "Salt ", PlainCells)
    IN {[r EXCEPT !.name = ""],
        [r EXCEPT !.uom = "", !.unit = ""],
        [r EXCEPT !.uom = "zz", !.unit = "zz"],
        [r EXCEPT !.price = ""],
        [r EXCEPT !.uom = None, !.unit = None, !.supplier = None, !.date = None]}

\* the rows a file with the given (normalised) header can hold
Rows(header) ==
    {[k \in Columns |-> IF k \in header THEN r[k] ELSE Absent] : r \in GoodRows \cup BadRows}

\* Imports, one after the other, and manual recomputes between them.
NextImport ==
    \/ \E fieldnames \in Headers : action_import(fieldnames)
    \/ \E row \in Rows(wizard.header) : action_import_row(row)
    \/ action_import_done
    \/ \E r \in RecipeIds : action_recompute_costs(r)

SpecImport == Init /\ [][NextImport]_vars

Next ==
    \/ NextCompute \/ NextCost \/ NextProduct \/ NextImport \/ NextTrigger
    \/ \E i \in IngIds, p \in PriceVals : ingredient_write_price(i, p)

Spec == Init /\ [][Next]_vars

\* ------------------------------------------------------------------ claims
\* the recipe whose _compute_costs ran in the last operation (NoId: none did)
Recomputed(r) == lastOp.rec = r /\ lastOp.op # "action_update_product_cost"

StoredLineCosts(r) == SumOver(line_ids(line, r), [l \in LineIds |-> line[l].cost])
RawLabor(r) == recipe[r].labor_hours * get_rate(param, "labor_rate")
RawEnergy(r) == recipe[r].energy_hours * get_rate(param, "energy_rate")
RawTotal(r) ==
    (StoredLineCosts(r) + recipe[r].packaging_cost + recipe[r].extra_cost) * Scale
        + RawEnergy(r)
\* c (in cents) is the value v (in 1/Scale cents) at the field's precision
Nearest(c, v) == 2 * Abs(c * Scale - v) <= Scale

\* C1 (as amended): after _compute_costs ran on a recipe, ingredient_cost is
\* the sum of the stored line costs, labor_cost, energy_cost, total_cost and
\* grand_total are their formulas at the Product Price precision, total_cost =
\* ingredient_cost + energy_cost + packaging_cost + extra_cost, and grand_total
\* is within one unit of that precision of total_cost + labor_cost.
C1_CostsAtFieldPrecision ==
    \A r \in RecipeIds : Recomputed(r) =>
        LET rc == recipe[r]
        IN /\ rc.ingredient_cost = StoredLineCosts(r)
           /\ Nearest(rc.labor_cost, RawLabor(r))
           /\ Nearest(rc.energy_cost, RawEnergy(r))
           /\ Nearest(rc.total_cost, RawTotal(r))
           /\ Nearest(rc.grand_total, RawTotal(r) + RawLabor(r))
           /\ rc.total_cost = rc.ingredient_cost + rc.energy_cost
                                + rc.packaging_cost + rc.extra_cost
           /\ Abs(rc.grand_total - (rc.total_cost + rc.labor_cost)) <= 1

\* C1 as stated: the stored fields satisfy the equations exactly.
C1_ExactEquations ==
    \A r \in RecipeIds : Recomputed(r) =>
        LET rc == recipe[r]
        IN /\ rc.ingredient_cost = StoredLineCosts(r)
           /\ rc.labor_cost * Scale = RawLabor(r)
           /\ rc.energy_cost * Scale = RawEnergy(r)
           /\ rc.total_cost = rc.ingredient_cost + rc.energy_cost
                                + rc.packaging_cost + rc.extra_cost
           /\ rc.grand_total = rc.total_cost + rc.labor_cost

\* a recompute with labor and energy both priced, where the stored grand total
\* is not the sum of the stored total and the stored labor cost
C1_Witness ==
    \E r \in RecipeIds :
        /\ Recomputed(r)
        /\ RawLabor(r) > 0 /\ RawEnergy(r) > 0 /\ StoredLineCosts(r) > 0
        /\ recipe[r].packaging_cost > 0 /\ recipe[r].extra_cost > 0
        /\ recipe[r].grand_total # recipe[r].total_cost + recipe[r].labor_cost

\* C2: after a recompute trigger on a recipe, each of its lines on another
\* recipe costs quantity times that recipe's current total_cost, and
\* ingredient_cost is the sum of its lines' costs.
C2_SubRecipeCostCurrent ==
    \A r \in RecipeIds : Recomputed(r) =>
        /\ recipe[r].ingredient_cost = StoredLineCosts(r)
        /\ \A l \in line_ids(line, r) :
              (line[l].ingredient_id = NoId /\ line[l].sub_recipe_id \notin {NoId, r})
                  => line[l].cost * Scale
                        = line[l].quantity * recipe[line[l].sub_recipe_id].total_cost

C10_OneWaySync ==
    [][IF lastOp'.op = "action_update_product_cost"
       THEN LET rc == recipe[lastOp'.rec]
            IN /\ recipe' = recipe /\ line' = line /\ ingredient' = ingredient
               /\ standard_price' =
                     [p \in ProductIds |->
                         IF p = rc.product_id THEN rc.cost_per_portion
                         ELSE standard_price[p]]
       ELSE standard_price' = standard_price]_vars

\* the sync has run on a recipe linked to a product, with a cost to push that
\* is neither 0 nor the recipe's total
C10_Witness ==
    \E r \in RecipeIds :
        /\ lastOp = [op |-> "action_update_product_cost", rec |-> r]
        /\ recipe[r].product_id # NoId
        /\ recipe[r].cost_per_portion \notin {0, recipe[r].grand_total}
        /\ standard_price[recipe[r].product_id] = recipe[r].cost_per_portion

\* a row was read in this step; LastRow is then its entry in the run's log
RowRead == imported' = imported + 1
LastRow(w) == w.log[Len(w.log)]
Codes == {ingredient[i].code : i \in {j \in IngIds : ingredient[j].exists}} \ {""}

\* C3: after a recompute trigger on a recipe, each of its ingredient lines
\* costs its quantity, in the ingredient's unit, times the ingredient's current
\* price, and ingredient_cost is the sum of the lines' costs.
C3_IngredientCostCurrent ==
    \A r \in RecipeIds : Recomputed(r) =>
        /\ recipe[r].ingredient_cost = StoredLineCosts(r)
        /\ \A l \in line_ids(line, r) :
              line[l].ingredient_id # NoId =>
                  Nearest(line[l].cost,
                          LET q == uom_compute_quantity(line[l].quantity, line[l].uom_id,
                                       ingredient[line[l].ingredient_id].uom_id)
                          IN (IF q = ConversionFails THEN line[l].quantity ELSE q)
                                * ingredient[line[l].ingredient_id].price)

\* rows i < j of one import, both imported, with the same code and two names
SameCode(i, j) ==
    /\ i < j
    /\ wizard.log[i].result # "error" /\ wizard.log[j].result # "error"
    /\ wizard.log[i].code # "" /\ wizard.log[i].code = wizard.log[j].code
    /\ wizard.log[i].name # wizard.log[j].name

\* no row between i and j gave row i's ingredient another code
CodeKept(i, j) ==
    \A k \in (i + 1)..(j - 1) :
        ~(wizard.log[k].id = wizard.log[i].id
            /\ wizard.log[k].code \notin {"", wizard.log[i].code})

\* C5 (as amended): of two imported rows with the same code and different
\* names, with no row between them that gave the first row's ingredient
\* another code, the second updates the first row's ingredient.
C5_CodeBeforeName ==
    \A i, j \in 1..Len(wizard.log) :
        (SameCode(i, j) /\ CodeKept(i, j)) =>
            /\ wizard.log[j].result = "updated"
            /\ wizard.log[j].id = wizard.log[i].id

\* C5 as stated: any two imported rows with the same code and different names.
C5_AnyTwoRows ==
    \A i, j \in 1..Len(wizard.log) :
        SameCode(i, j) =>
            /\ wizard.log[j].result = "updated"
            /\ wizard.log[j].id = wizard.log[i].id

\* a row created an ingredient and the next one, same code and another name,
\* updated it
C5_Witness ==
    \E i \in 1..Len(wizard.log) :
        /\ i + 1 <= Len(wizard.log)
        /\ SameCode(i, i + 1)
        /\ wizard.log[i].result = "created"
        /\ wizard.log[i + 1].result = "updated" /\ wizard.log[i + 1].id = wizard.log[i].id
        /\ ingredient[wizard.log[i].id].name = wizard.log[i + 1].name

\* the unit-of-measure value of the row just read is empty or missing
NoUom(row) == cells(row).uom \in {"", None} \/ strip(cells(row).uom) = ""

\* C6: a row without a unit of measure adds exactly one error, which holds the
\* row's number (the n-th data row is row n + 1), creates and updates nothing;
\* and a valid row is imported whatever errors came before it.
C6_MissingUom ==
    [][RowRead =>
         /\ NoUom(wizard'.row) =>
              /\ Len(wizard'.errors) = Len(wizard.errors) + 1
              /\ SubSeq(wizard'.errors, 1, Len(wizard.errors)) = wizard.errors
              /\ wizard'.errors[Len(wizard'.errors)].row = Len(wizard'.log) + 1
              /\ ingredient' = ingredient
              /\ wizard'.created = wizard.created /\ wizard'.updated = wizard.updated
         /\ row_error(wizard'.row) = "" =>
              /\ LastRow(wizard').result \in {"created", "updated"}
              /\ wizard'.errors = wizard.errors]_vars

\* the second row of a file had no unit of measure and the third was created
C6_Witness ==
    /\ Len(wizard.log) = 3
    /\ wizard.log[2].result = "error" /\ wizard.log[3].result = "created"
    /\ \E k \in 1..Len(wizard.errors) :
          wizard.errors[k] = [row |-> 3, message |-> "Missing unit of measure"]

C8_CodeUnique ==
    \A i, j \in IngIds :
        (i # j /\ ingredient[i].exists /\ ingredient[j].exists /\ ingredient[i].code # "")
            => ingredient[i].code # ingredient[j].code

\* an import gave an ingredient found by its name a code, beside an
\* ingredient that has another code
C8_Witness ==
    /\ Cardinality(Codes) = 2
    /\ \E k \in 1..Len(wizard.log) :
          /\ wizard.log[k].result = "updated"
          /\ wizard.log[k].code # "" /\ wizard.log[k].name # "Flour"
          /\ wizard.log[k].id # 1

\* the row just read updated an ingredient
Updated == RowRead /\ LastRow(wizard').result = "updated"
NotSupplied(row, column) == row[column] \in {Absent, ""}

\* C9 (as amended): an update keeps code, category and supplier when the row
\* does not supply them and leaves every other ingredient alone; name, unit,
\* price and price date are always overwritten: the price with the row's
\* price, 0 when the file has no price column, the date with the row's date,
\* the current date when the row supplies none.
C9_UpdateKeepsOptionalFields ==
    [][Updated =>
         LET i == LastRow(wizard').id
             row == wizard'.row
         IN /\ NotSupplied(row, "code") => ingredient'[i].code = ingredient[i].code
            /\ NotSupplied(row, "category") =>
                  ingredient'[i].category_id = ingredient[i].category_id
            /\ NotSupplied(row, "supplier") =>
                  ingredient'[i].supplier_id = ingredient[i].supplier_id
            /\ row["price"] = Absent => ingredient'[i].price = 0
            /\ NotSupplied(row, "date") => ingredient'[i].price_date = Today
            /\ ingredient'[i].name = strip(row["name"])
            /\ \A j \in IngIds \ {i} : ingredient'[j] = ingredient[j]]_vars

\* C9 as stated: an update keeps price, date, code, category and supplier when
\* the row does not supply them.
C9_UpdateKeepsUnsupplied ==
    [][Updated =>
         LET i == LastRow(wizard').id
             row == wizard'.row
         IN /\ NotSupplied(row, "price") => ingredient'[i].price = ingredient[i].price
            /\ NotSupplied(row, "date") =>
                  ingredient'[i].price_date = ingredient[i].price_date
            /\ NotSupplied(row, "code") => ingredient'[i].code = ingredient[i].code
            /\ NotSupplied(row, "category") =>
                  ingredient'[i].category_id = ingredient[i].category_id
            /\ NotSupplied(row, "supplier") =>
                  ingredient'[i].supplier_id = ingredient[i].supplier_id]_vars

\* a row with neither code, category nor supplier updated an ingredient that
\* has all three
C9_Witness ==
    /\ wizard.log # <<>>
    /\ LastRow(wizard).result = "updated"
    /\ NotSupplied(wizard.row, "code") /\ NotSupplied(wizard.row, "category")
    /\ NotSupplied(wizard.row, "supplier")
    /\ LET rec == ingredient[LastRow(wizard).id]
       IN rec.code # "" /\ rec.category_id # "" /\ rec.supplier_id # ""

\* recipes r and s hold each other: a line of r is made of s, one of s of r
Cycle(r, s) ==
    /\ r # s
    /\ \E l \in line_ids(line, r) : line[l].sub_recipe_id = s
    /\ \E l \in line_ids(line, s) : line[l].sub_recipe_id = r

\* C11: a computation of a recipe's costs writes the derived fields of that
\* recipe only, leaves every line and every other recipe alone and marks
\* nothing; and whatever a trigger marks is computed to the last field, for
\* every containment graph.
C11_RecomputeEnds ==
    /\ [][lastOp'.op = "_compute_costs" =>
            LET r == lastOp'.rec
            IN /\ line' = line
               /\ \A s \in RecipeIds \ {r} : recipe'[s] = recipe[s]
               /\ \A f \in InputFields \cup {"product_id"} : recipe'[r][f] = recipe[r][f]
               /\ tocompute' = tocompute \ {CostsOf(r)}]_vars
    /\ (tocompute # {} ~> tocompute = {})

\* of two recipes that hold each other, one has just been recomputed to a
\* new total, nothing is marked, and the other's line on it has its old cost
C11_Witness ==
    /\ lastOp.op = "_compute_costs"
    /\ tocompute = {}
    /\ \E s \in RecipeIds :
          /\ Cycle(lastOp.rec, s)
          /\ recipe[lastOp.rec].total_cost > 0
          /\ \E l \in line_ids(line, s) :
                /\ line[l].sub_recipe_id = lastOp.rec
                /\ line[l].cost * Scale # line[l].quantity * recipe[lastOp.rec].total_cost

====
